---- MODULE Spec2Model ----
(***************************************************************************)
(* Model of the two utilities of precie21/astral-assistant:                *)
(*   - whisper_api_debug.py : the Transcription Relay (FastAPI handlers    *)
(*     run on one asyncio event loop; subprocess.run blocks that loop);    *)
(*   - generate_icons.py    : the Icon Generator (sequential batch run).   *)
(* Specification Spec is the relay, IconSpec is the icon generator.        *)
(***************************************************************************)
EXTENDS Integers, Sequences, FiniteSets, TLC

(***************************************************************************)
(* Bounds of the model                                                     *)
(***************************************************************************)
\* longest standard output of the external executable (characters)
MaxLen == 3
\* longest standard error of the external executable (characters)
MaxErrLen == 1

(***************************************************************************)
(* Text: a Python str is a sequence of characters                          *)
(***************************************************************************)
Whitespace == {" ", "\n"}
Chars == Whitespace \cup {"a"}

RECURSIVE StrUpTo(_)
StrUpTo(n) ==
    IF n = 0 THEN {<<>>}
    ELSE LET shorter == StrUpTo(n - 1)
         IN  shorter \cup {Append(s, c) : s \in {t \in shorter : Len(t) = n - 1}, c \in Chars}

Stdouts == StrUpTo(MaxLen)
Stderrs == StrUpTo(MaxErrLen)

RECURSIVE lstrip(_)
lstrip(s) ==
    IF s = <<>> THEN <<>>
    ELSE IF Head(s) \in Whitespace THEN lstrip(Tail(s)) ELSE s

RECURSIVE rstrip(_)
rstrip(s) ==
    IF s = <<>> THEN <<>>
    ELSE IF s[Len(s)] \in Whitespace THEN rstrip(SubSeq(s, 1, Len(s) - 1)) ELSE s

\* str.strip(): leading and trailing whitespace removed, inner kept
stripLeadingOnly(s) == lstrip(s)
strip(s) == rstrip(lstrip(s))

\* t occurs in s as a contiguous run of characters
Contains(s, t) ==
    \E i \in 0..(Len(s) - Len(t)) : SubSeq(s, i + 1, i + Len(t)) = t

(***************************************************************************)
(* Transcription Relay: whisper_api_debug.py                               *)
(***************************************************************************)
Requests == {"A", "B"}
Audio == {"a1", "a2"}
None == "None"
Free == "free"
\* content of temp_audio.wav after open(..., "wb") truncated it and the write failed
Truncated == "truncated"
RetCodes == {0, 1, -11}

\* str(e) of the exceptions the handler can meet, as token sequences
ReadError == <<"read failed">>
OpenError == <<"open failed">>
WriteError == <<"write failed">>
LaunchError == <<"No such file or directory: ./main">>
RemoveError == <<"remove failed">>
WhisperFailedPrefix == <<"Whisper failed: ">>
InternalServerError == <<"Internal Server Error">>

VARIABLES
    exePresent,   \* WHISPER_EXECUTABLE exists and can be launched
    disk,         \* content of temp_audio.wav, or None when it does not exist
    pc,           \* per request: where its handler is
    upload,       \* per request: the bytes the client uploads
    loop,         \* the handler running on the event loop, or Free
    loc,          \* locals of the handler occupying the event loop, kept
                  \* until the next handler resumes from file.read()
    sent,         \* the response of the handler that last ran to its end,
                  \* NoResponse while a handler occupies the event loop
    health,       \* the last response of GET /health, or NoResponse
    serverUp      \* uvicorn.run has not returned

relayVars == <<exePresent, disk, pc, upload, loop, loc, sent, health, serverUp>>

(***************************************************************************)
(* Icon Generator: generate_icons.py -- state                              *)
(***************************************************************************)
VARIABLES
    src,          \* src-tauri/icons/icon.png: exists, decodable, size, mode
    fs,           \* the files of src-tauri/icons the run may touch
    fs0,          \* those files as they were when the run started
    ipc,          \* position of the script
    img,          \* the opened source image
    idx,          \* index of the loop over sizes / ico_sizes
    resized,      \* the loop's resized image
    ico_images,   \* the list ico_images
    printed,      \* the file names of the "Generated: ..." lines printed
    iexc,         \* the step that raised the exception being handled
    exitCode      \* exit status, meaningful once ipc = "exited"

iconVars == <<src, fs, fs0, ipc, img, idx, resized, ico_images, printed, iexc, exitCode>>

\* no response has been sent yet
NoResponse == [req |-> None, status |-> 0, body |-> [none |-> TRUE]]

\* exited: subprocess.run has returned `result`; kind: class of the exception
\* raised, None when none was
NoLocals ==
    [req |-> None, content |-> None, written |-> FALSE, fed |-> None,
     exited |-> FALSE, returncode |-> 0, stdout |-> <<>>, stderr |-> <<>>,
     transcription |-> <<>>, removed |-> FALSE, exc |-> <<>>, kind |-> None]

RelayInit ==
    /\ exePresent \in BOOLEAN
    /\ disk = None
    /\ pc = [r \in Requests |-> "idle"]
    /\ upload = [r \in Requests |-> None]
    /\ loop = Free
    /\ loc = NoLocals
    /\ sent = NoResponse
    /\ health = NoResponse
    /\ serverUp = TRUE

\* a coroutine runs only when no other handler occupies the event loop:
\* the handlers are `async def` and nothing between file.read() and the
\* return awaits, subprocess.run included
LoopFreeAlways(r) == TRUE
LoopFree(r) == loop = Free

\* `except Exception` catches every exception class raised in the handler
CatchesOnlyRaised(kind) == kind = "Exception"
Catches(kind) == TRUE

\* result.returncode != 0
FailedPositive(rc) == rc > 0
Failed(rc) == rc # 0

HealthResponseProbing ==
    IF exePresent
    THEN [req |-> "health", status |-> 200,
          body |-> [status |-> "ok", model |-> "whisper.cpp base.en"]]
    ELSE [req |-> "health", status |-> 503,
          body |-> [status |-> "error", model |-> "whisper.cpp base.en"]]
HealthResponse ==
    [req |-> "health", status |-> 200,
     body |-> [status |-> "ok", model |-> "whisper.cpp base.en"]]

Raise(r, kind, msg) ==
    /\ loc' = [loc EXCEPT !.exc = msg, !.kind = kind]
    /\ pc' = [pc EXCEPT ![r] = "except"]

\* a client posts /transcribe: the handler starts and suspends in file.read()
Receive(r, a) ==
    /\ serverUp
    /\ pc[r] = "idle"
    /\ LoopFree(r)
    /\ pc' = [pc EXCEPT ![r] = "reading"]
    /\ upload' = [upload EXCEPT ![r] = a]
    /\ UNCHANGED <<exePresent, disk, loop, loc, sent, health, serverUp>>
    /\ UNCHANGED iconVars

\* file.read() fails: the handler resumes with the exception
ReadFails(r) ==
    /\ pc[r] = "reading"
    /\ LoopFree(r)
    /\ loop' = r
    /\ loc' = [NoLocals EXCEPT !.req = r, !.exc = ReadError, !.kind = "OSError"]
    /\ pc' = [pc EXCEPT ![r] = "except"]
    /\ sent' = NoResponse
    /\ UNCHANGED <<exePresent, disk, upload, health, serverUp>>
    /\ UNCHANGED iconVars

\* file.read() returns; open(audio_path, "wb") and f.write(content)
SaveUpload(r) ==
    /\ pc[r] = "reading"
    /\ LoopFree(r)
    /\ loop' = r
    /\ \/ /\ disk' = upload[r]
          /\ loc' = [NoLocals EXCEPT !.req = r, !.content = upload[r], !.written = TRUE]
          /\ pc' = [pc EXCEPT ![r] = "run"]
       \/ /\ disk' = disk
          /\ loc' = [NoLocals EXCEPT !.req = r, !.content = upload[r],
                                      !.exc = OpenError, !.kind = "OSError"]
          /\ pc' = [pc EXCEPT ![r] = "except"]
       \/ /\ disk' = Truncated
          /\ loc' = [NoLocals EXCEPT !.req = r, !.content = upload[r],
                                      !.exc = WriteError, !.kind = "OSError"]
          /\ pc' = [pc EXCEPT ![r] = "except"]
    /\ sent' = NoResponse
    /\ UNCHANGED <<exePresent, upload, health, serverUp>>
    /\ UNCHANGED iconVars

\* subprocess.run starts the executable, or raises when it cannot
Launch(r) ==
    /\ pc[r] = "run"
    /\ loop = r
    /\ IF exePresent
       THEN /\ pc' = [pc EXCEPT ![r] = "wait"]
            /\ loc' = loc
       ELSE Raise(r, "FileNotFoundError", LaunchError)
    /\ UNCHANGED <<exePresent, disk, upload, loop, sent, health, serverUp>>
    /\ UNCHANGED iconVars

\* the external process reads the file named by -f
ProcRead(r) ==
    /\ pc[r] = "wait"
    /\ loop = r
    /\ loc.fed = None
    /\ disk # None
    /\ loc' = [loc EXCEPT !.fed = disk]
    /\ UNCHANGED <<exePresent, disk, pc, upload, loop, sent, health, serverUp>>
    /\ UNCHANGED iconVars

\* the external process exits; subprocess.run returns the completed process
ProcExit(r) ==
    /\ pc[r] = "wait"
    /\ loop = r
    /\ \E rc \in RetCodes, out \in Stdouts, err \in Stderrs :
          loc' = [loc EXCEPT !.exited = TRUE, !.returncode = rc, !.stdout = out, !.stderr = err]
    /\ pc' = [pc EXCEPT ![r] = "check"]
    /\ UNCHANGED <<exePresent, disk, upload, loop, sent, health, serverUp>>
    /\ UNCHANGED iconVars

\* lines 36-46: the return-code test, strip, os.remove and the JSON response
Finish(r) ==
    /\ pc[r] = "check"
    /\ loop = r
    /\ IF Failed(loc.returncode)
       THEN /\ Raise(r, "Exception", WhisperFailedPrefix \o loc.stderr)
            /\ UNCHANGED <<disk, upload, loop, sent>>
       ELSE \/ /\ disk # None
               /\ disk' = None
               /\ loc' = [loc EXCEPT !.transcription = strip(loc.stdout), !.removed = TRUE]
               /\ sent' = [req |-> r, status |-> 200,
                           body |-> [text |-> strip(loc.stdout)]]
               /\ pc' = [pc EXCEPT ![r] = "idle"]
               /\ upload' = [upload EXCEPT ![r] = None]
               /\ loop' = Free
            \/ /\ loc' = [loc EXCEPT !.transcription = strip(loc.stdout),
                                      !.exc = RemoveError, !.kind = "OSError"]
               /\ pc' = [pc EXCEPT ![r] = "except"]
               /\ UNCHANGED <<disk, upload, loop, sent>>
    /\ UNCHANGED <<exePresent, health, serverUp>>
    /\ UNCHANGED iconVars

\* lines 48-52: HTTPException(500, detail=str(e)); an exception the clause
\* does not catch is answered by the framework's own 500
Except(r) ==
    /\ pc[r] = "except"
    /\ loop = r
    /\ sent' = [req |-> r, status |-> 500,
                body |-> [detail |-> IF Catches(loc.kind) THEN loc.exc
                                     ELSE InternalServerError]]
    /\ pc' = [pc EXCEPT ![r] = "idle"]
    /\ upload' = [upload EXCEPT ![r] = None]
    /\ loop' = Free
    /\ UNCHANGED <<exePresent, disk, loc, health, serverUp>>
    /\ UNCHANGED iconVars

\* GET /health
health_check ==
    /\ serverUp
    /\ loop = Free
    /\ health' = HealthResponse
    /\ UNCHANGED <<exePresent, disk, pc, upload, loop, loc, sent, serverUp>>
    /\ UNCHANGED iconVars

\* the client of GET /health has taken its response
HealthTaken ==
    /\ health # NoResponse
    /\ health' = NoResponse
    /\ UNCHANGED <<exePresent, disk, pc, upload, loop, loc, sent, serverUp>>
    /\ UNCHANGED iconVars

RelayNext ==
    \/ \E r \in Requests, a \in Audio : Receive(r, a)
    \/ \E r \in Requests : ReadFails(r)
    \/ \E r \in Requests : SaveUpload(r)
    \/ \E r \in Requests : Launch(r)
    \/ \E r \in Requests : ProcRead(r)
    \/ \E r \in Requests : ProcExit(r)
    \/ \E r \in Requests : Finish(r)
    \/ \E r \in Requests : Except(r)
    \/ health_check
    \/ HealthTaken

(***************************************************************************)
(* Icon Generator: generate_icons.py                                       *)
(***************************************************************************)
\* (width, height, filename) of the PNG outputs, in the order of the list
sizesWithPlain2x ==
    << <<32, 32, "32x32.png">>, <<128, 128, "128x128.png">>,
       <<128, 128, "128x128@2x.png">> >>
sizes ==
    << <<32, 32, "32x32.png">>, <<128, 128, "128x128.png">>,
       <<256, 256, "128x128@2x.png">> >>

ico_sizes ==
    << <<16, 16>>, <<32, 32>>, <<48, 48>>, <<64, 64>>, <<128, 128>>, <<256, 256>> >>

IcoName == "icon.ico"
IcnsName == "icon.icns"
PngNames == {sizes[k][3] : k \in 1..Len(sizes)}
FileNames == PngNames \cup {IcoName, IcnsName}

Absent == [kind |-> "absent", size |-> <<0, 0>>, entries |-> {}]
\* a file left by something else before the run
Stale == [kind |-> "stale", size |-> <<0, 0>>, entries |-> {}]
\* a file opened for writing whose encoding did not complete
Partial == [kind |-> "partial", size |-> <<0, 0>>, entries |-> {}]
PngFile(im) == [kind |-> "png", size |-> im.size, entries |-> {}]

\* the ICO encoder keeps, of the requested sizes, those that exceed neither
\* the saved image's own size nor 256 px; each kept size is one entry
IcoEntries(im, wanted) ==
    {wanted[k] : k \in {j \in 1..Len(wanted) :
        /\ wanted[j][1] <= im.size[1] /\ wanted[j][2] <= im.size[2]
        /\ wanted[j][1] <= 256 /\ wanted[j][2] <= 256}}
IcoFile(im, wanted) == [kind |-> "ico", size |-> im.size, entries |-> IcoEntries(im, wanted)]

NoImage == [size |-> <<0, 0>>, mode |-> None]
SourceSizes == {<<512, 512>>, <<300, 200>>, <<10, 10>>}
SourceModes == {"RGBA", "RGB", "P"}
Sources ==
    {[exists |-> FALSE, decodable |-> FALSE, size |-> <<0, 0>>, mode |-> None],
     [exists |-> TRUE, decodable |-> FALSE, size |-> <<0, 0>>, mode |-> None]}
    \cup {[exists |-> TRUE, decodable |-> TRUE, size |-> z, mode |-> m] :
            z \in SourceSizes, m \in SourceModes}

\* Image.resize(size, LANCZOS): a new image of exactly that size, same mode
resize(im, size) == [size |-> size, mode |-> im.mode]

\* os.path.exists(source)
ExistsAlways(s) == TRUE
Exists(s) == s.exists

\* what the top-level `except` leaves of the output directory: everything
RemoveOutputs(f) == [n \in DOMAIN f |-> IF n = IcnsName THEN f[n] ELSE Absent]
KeptOnError(f) == f

\* what a save that raises can leave of its target file
SaveFailureOutcomes(old) == {old, Partial}

IconInit ==
    /\ src \in Sources
    /\ fs0 \in [FileNames -> {Absent, Stale}]
    /\ fs = fs0
    /\ ipc = "start"
    /\ img = NoImage
    /\ idx = 1
    /\ resized = NoImage
    /\ ico_images = <<>>
    /\ printed = <<>>
    /\ iexc = None
    /\ exitCode = 0

IconIdle ==
    /\ src = [exists |-> FALSE, decodable |-> FALSE, size |-> <<0, 0>>, mode |-> None]
    /\ fs0 = [n \in FileNames |-> Absent]
    /\ fs = fs0
    /\ ipc = "start"
    /\ img = NoImage
    /\ idx = 1
    /\ resized = NoImage
    /\ ico_images = <<>>
    /\ printed = <<>>
    /\ iexc = None
    /\ exitCode = 0

IconRaise(step) ==
    /\ iexc' = step
    /\ ipc' = "handler"

\* lines 48-53: the pre-flight check of the source path
CheckSource ==
    /\ ipc = "start"
    /\ IF Exists(src)
       THEN ipc' = "open" /\ exitCode' = exitCode
       ELSE ipc' = "exited" /\ exitCode' = 1
    /\ UNCHANGED <<src, fs, fs0, img, idx, resized, ico_images, printed, iexc>>
    /\ UNCHANGED relayVars

\* line 11: Image.open raises for a missing or undecodable file
Open ==
    /\ ipc = "open"
    /\ IF src.exists /\ src.decodable
       THEN /\ img' = [size |-> src.size, mode |-> src.mode]
            /\ ipc' = "convert"
            /\ iexc' = iexc
       ELSE /\ IconRaise("open")
            /\ img' = img
    /\ UNCHANGED <<src, fs, fs0, idx, resized, ico_images, printed, exitCode>>
    /\ UNCHANGED relayVars

\* lines 14-15
Convert ==
    /\ ipc = "convert"
    /\ img' = IF img.mode # "RGBA" THEN [img EXCEPT !.mode = "RGBA"] ELSE img
    /\ ipc' = "png_resize"
    /\ idx' = 1
    /\ UNCHANGED <<src, fs, fs0, resized, ico_images, printed, iexc, exitCode>>
    /\ UNCHANGED relayVars

\* line 26, or the end of the loop over sizes (lines 32-33)
PngResize ==
    /\ ipc = "png_resize"
    /\ \/ /\ idx <= Len(sizes)
          /\ resized' = resize(img, <<sizes[idx][1], sizes[idx][2]>>)
          /\ ipc' = "png_save"
          /\ UNCHANGED <<idx, ico_images, iexc>>
       \/ /\ idx <= Len(sizes)
          /\ IconRaise("resize")
          /\ UNCHANGED <<idx, resized, ico_images>>
       \/ /\ idx > Len(sizes)
          /\ ipc' = "ico_resize"
          /\ idx' = 1
          /\ ico_images' = <<>>
          /\ UNCHANGED <<resized, iexc>>
    /\ UNCHANGED <<src, fs, fs0, img, printed, exitCode>>
    /\ UNCHANGED relayVars

\* lines 27-29: save as PNG and print the file name
PngSave ==
    /\ ipc = "png_save"
    /\ LET filename == sizes[idx][3] IN
       \/ /\ fs' = [fs EXCEPT ![filename] = PngFile(resized)]
          /\ printed' = Append(printed, filename)
          /\ idx' = idx + 1
          /\ ipc' = "png_resize"
          /\ iexc' = iexc
       \/ /\ \E left \in SaveFailureOutcomes(fs[filename]) :
                fs' = [fs EXCEPT ![filename] = left]
          /\ IconRaise("save")
          /\ UNCHANGED <<printed, idx>>
    /\ UNCHANGED <<src, fs0, img, resized, ico_images, exitCode>>
    /\ UNCHANGED relayVars

\* lines 34-36, or the end of the loop over ico_sizes
IcoResize ==
    /\ ipc = "ico_resize"
    /\ \/ /\ idx <= Len(ico_sizes)
          /\ resized' = resize(img, ico_sizes[idx])
          /\ ico_images' = Append(ico_images, resize(img, ico_sizes[idx]))
          /\ idx' = idx + 1
          /\ UNCHANGED <<ipc, iexc>>
       \/ /\ idx <= Len(ico_sizes)
          /\ IconRaise("resize")
          /\ UNCHANGED <<idx, resized, ico_images>>
       \/ /\ idx > Len(ico_sizes)
          /\ ipc' = "ico_save"
          /\ UNCHANGED <<idx, resized, ico_images, iexc>>
    /\ UNCHANGED <<src, fs, fs0, img, printed, exitCode>>
    /\ UNCHANGED relayVars

\* lines 38-40: ico_images[0].save(ico_path, format='ICO', sizes=ico_sizes)
IcoSave ==
    /\ ipc = "ico_save"
    /\ \/ /\ fs' = [fs EXCEPT ![IcoName] = IcoFile(ico_images[1], ico_sizes)]
          /\ printed' = Append(printed, IcoName)
          /\ ipc' = "notes"
          /\ iexc' = iexc
       \/ /\ \E left \in SaveFailureOutcomes(fs[IcoName]) :
                fs' = [fs EXCEPT ![IcoName] = left]
          /\ IconRaise("save")
          /\ printed' = printed
    /\ UNCHANGED <<src, fs0, img, idx, resized, ico_images, exitCode>>
    /\ UNCHANGED relayVars

\* lines 42-45 and 61: the notes are printed, generate_icons returns, exit 0
Complete ==
    /\ ipc = "notes"
    /\ ipc' = "exited"
    /\ exitCode' = 0
    /\ UNCHANGED <<src, fs, fs0, img, idx, resized, ico_images, printed, iexc>>
    /\ UNCHANGED relayVars

\* lines 62-64: except Exception: print, exit(1)
Handler ==
    /\ ipc = "handler"
    /\ fs' = KeptOnError(fs)
    /\ ipc' = "exited"
    /\ exitCode' = 1
    /\ UNCHANGED <<src, fs0, img, idx, resized, ico_images, printed, iexc>>
    /\ UNCHANGED relayVars

IconNext ==
    \/ CheckSource
    \/ Open
    \/ Convert
    \/ PngResize
    \/ PngSave
    \/ IcoResize
    \/ IcoSave
    \/ Complete
    \/ Handler

vars == <<relayVars, iconVars>>

Init == RelayInit /\ IconIdle
Next == RelayNext
Spec == Init /\ [][Next]_vars

\* the relay as it is before any request, with the executable absent
RelayIdle == RelayInit /\ ~exePresent
IconSpecInit == IconInit /\ RelayIdle
IconSpec == IconSpecInit /\ [][IconNext]_vars

(***************************************************************************)
(* Properties of the Transcription Relay                                   *)
(***************************************************************************)
AllWhitespace(s) == \A i \in 1..Len(s) : s[i] \in Whitespace

\* t is s without its leading and trailing whitespace
IsTrimOf(t, s) ==
    /\ t = <<>> \/ (t[1] \notin Whitespace /\ t[Len(t)] \notin Whitespace)
    /\ \E i \in 0..(Len(s) - Len(t)) :
          /\ SubSeq(s, i + 1, i + Len(t)) = t
          /\ AllWhitespace(SubSeq(s, 1, i))
          /\ AllWhitespace(SubSeq(s, i + Len(t) + 1, Len(s)))

\* the handler of the response in `sent` got a result from subprocess.run
Answered == sent # NoResponse
ExitedZero == Answered /\ loc.written /\ loc.exited /\ loc.returncode = 0
ExitedNonZero == Answered /\ loc.exited /\ loc.returncode # 0

\* C1 as stated: whenever the upload was written and the executable exited
\* with code 0, the response is 200 with text = the trimmed standard output.
C1_AsStated ==
    ExitedZero => (sent.status = 200 /\ IsTrimOf(sent.body.text, loc.stdout))

\* C1 as amended: whenever the upload was written, the executable exited
\* with code 0 and os.remove of the temporary file succeeded, the response
\* is 200 with text = the standard output without its leading and trailing
\* whitespace; when os.remove raised, the response is 500 instead.
C1_TrimmedStdout ==
    /\ (ExitedZero /\ loc.removed) =>
          (sent.status = 200 /\ IsTrimOf(sent.body.text, loc.stdout))
    /\ (ExitedZero /\ ~loc.removed) => sent.status = 500

C1_Witness ==
    /\ ExitedZero /\ loc.removed
    /\ loc.stdout = <<"\n", "a", " ">>
    /\ sent.status = 200
    /\ sent.body.text = <<"a">>

\* C2: whenever the executable exited with a non-zero code, the response is
\* 500 (never 200) and its detail contains the captured standard error.
C2_NonZeroExit ==
    ExitedNonZero => (sent.status = 500 /\ Contains(sent.body.detail, loc.stderr))

C2_Witness ==
    /\ ExitedNonZero
    /\ loc.returncode < 0
    /\ loc.stderr = <<"a">>
    /\ sent.status = 500
    /\ sent.body.detail = WhisperFailedPrefix \o <<"a">>

\* C3: every exception raised in the handler is answered with 500 whose
\* detail is the exception's text, the server stays up, and every idle
\* request slot can post again once the event loop is free.
C3_FailuresCaught ==
    /\ serverUp
    /\ (Answered /\ loc.kind # None) =>
          (sent.status = 500 /\ sent.body = [detail |-> loc.exc])
    /\ \A r \in Requests :
          (pc[r] = "idle" /\ loop = Free) => \A a \in Audio : ENABLED Receive(r, a)

C3_Witness ==
    /\ Answered
    /\ loc.kind = "FileNotFoundError"
    /\ sent.status = 500
    /\ sent.body.detail = LaunchError
    /\ \E r \in Requests : pc[r] = "reading"

\* C4: once a request has been answered and none is in flight, the file
\* temp_audio.wav does not exist.
C4_TempFileDeleted ==
    (Answered /\ \A r \in Requests : pc[r] = "idle") => disk = None

HealthOk(h) == h.status = 200 /\ h.body.status = "ok"
InProcessWait == \E r \in Requests : pc[r] = "wait"

\* C5 as stated: GET /health answers 200 with "status": "ok" in every state
\* of the relay, also while a POST /transcribe waits on its external process.
C5_AsStated ==
    /\ health # NoResponse => HealthOk(health)
    /\ ENABLED health_check \/ ~InProcessWait

\* C5 as amended: every answer of GET /health is 200 with "status": "ok",
\* it is available whenever no handler occupies the event loop (requests
\* suspended in file.read() included), no answer is produced while a
\* handler occupies the loop, and answering changes neither the temporary
\* file nor any handler or subprocess state.
C5_HealthStatic ==
    /\ [](health # NoResponse => HealthOk(health))
    /\ [](loop = Free <=> ENABLED health_check)
    /\ [][(health' # health /\ health' # NoResponse) =>
             (/\ loop = Free
              /\ <<exePresent, disk, pc, upload, loop, loc, sent>>' =
                    <<exePresent, disk, pc, upload, loop, loc, sent>>)]_vars

C5_Witness ==
    /\ HealthOk(health)
    /\ ~exePresent
    /\ sent.status = 500
    /\ \E r \in Requests : pc[r] = "reading"

\* C9 as stated: while request a waits on its external process, which has
\* not yet read the file, the upload of another request b can overwrite
\* temp_audio.wav.
C9_AsStated ==
    \A a, b \in Requests :
        (a # b /\ pc[a] = "wait" /\ loc.fed = None /\ pc[b] = "reading")
            => ENABLED SaveUpload(b)

\* C9 as amended: no upload is written between a request's own write and
\* its response: while a request is between its write and its answer the
\* file holds its own bytes, its external process reads only those bytes,
\* and a 200 response rests on the bytes of the request it answers.
C9_NoOverwrite ==
    /\ \A r \in Requests :
          pc[r] \in {"run", "wait", "check"} =>
              /\ loop = r /\ loc.req = r
              /\ disk = upload[r]
              /\ loc.fed \in {None, upload[r]}
    /\ (Answered /\ sent.status = 200) => loc.fed \in {None, loc.content}

C9_Witness ==
    /\ pc["A"] = "wait" /\ pc["B"] = "reading"
    /\ upload["A"] # upload["B"]
    /\ loc.fed = upload["A"]
(***************************************************************************)
(* Properties of the Icon Generator                                        *)
(***************************************************************************)
Exited == ipc = "exited"
Success == Exited /\ exitCode = 0
Order == <<"32x32.png", "128x128.png", "128x128@2x.png", "icon.ico">>
IsPrefix(s, t) == Len(s) <= Len(t) /\ s = SubSeq(t, 1, Len(s))
Png(w, h) == [kind |-> "png", size |-> <<w, h>>, entries |-> {}]

\* C6: with the source path missing, the run goes from the pre-flight check
\* straight to exit status 1: no processing step runs, nothing is opened or
\* printed, and no file of the output directory is created or modified.
C6_MissingSource ==
    ~src.exists =>
        /\ ipc \in {"start", "exited"}
        /\ Exited => exitCode = 1
        /\ fs = fs0
        /\ img = NoImage /\ printed = <<>> /\ ico_images = <<>>

C6_Witness ==
    /\ ~src.exists
    /\ Exited /\ exitCode = 1
    /\ fs0[IcoName] = Stale /\ fs0["32x32.png"] = Absent
    /\ fs = fs0

\* C7: a run that raises nothing on a decodable source exits 0, and a run
\* that exits 0 has written exactly 32x32.png (32x32), 128x128.png (128x128),
\* 128x128@2x.png (256x256) and icon.ico, in that order; icon.icns is never
\* touched.
C7_FourFiles ==
    /\ fs[IcnsName] = fs0[IcnsName]
    /\ (Exited /\ src.exists /\ src.decodable /\ iexc = None) => exitCode = 0
    /\ Success =>
          /\ fs["32x32.png"] = Png(32, 32)
          /\ fs["128x128.png"] = Png(128, 128)
          /\ fs["128x128@2x.png"] = Png(256, 256)
          /\ fs[IcoName].kind = "ico"
          /\ printed = Order

C7_Witness ==
    /\ Success
    /\ src.mode = "RGB" /\ src.size = <<300, 200>>
    /\ fs0["128x128@2x.png"] = Stale /\ fs0[IcoName] = Absent
    /\ fs["128x128@2x.png"] = Png(256, 256)

\* C8: after a successful run icon.ico holds entries at the six resolutions
\* 16, 32, 48, 64, 128 and 256 px, the image handed to the writer being the
\* 16x16 derivative.
C8_SixEntries ==
    Success =>
        /\ ico_images[1].size = <<16, 16>>
        /\ fs[IcoName].entries =
              {<<16, 16>>, <<32, 32>>, <<48, 48>>, <<64, 64>>, <<128, 128>>, <<256, 256>>}

\* C10: the outputs are written in the order 32x32.png, 128x128.png,
\* 128x128@2x.png, icon.ico; a run in which a step raised exits with status
\* 1; from the raise on nothing is written; the outputs after the failing
\* step are as they were before the run, and every output once written
\* stays as written.
C10_NoRollback ==
    /\ [](IsPrefix(printed, Order))
    /\ []((Exited /\ iexc # None) => exitCode = 1)
    /\ [](iexc # None =>
            \A k \in 1..Len(Order) :
                /\ k <= Len(printed) => fs[Order[k]].kind \in {"png", "ico"}
                /\ k > Len(printed) + 1 => fs[Order[k]] = fs0[Order[k]])
    /\ [][/\ \A k \in 1..Len(printed) : fs'[Order[k]] = fs[Order[k]]
          /\ iexc # None => (fs' = fs /\ printed' = printed)]_vars

C10_Witness ==
    /\ Exited /\ exitCode = 1
    /\ iexc = "save"
    /\ printed = <<"32x32.png", "128x128.png">>
    /\ fs["32x32.png"] = Png(32, 32) /\ fs["128x128.png"] = Png(128, 128)
    /\ fs["128x128@2x.png"] = Partial
    /\ fs0[IcoName] = Stale /\ fs[IcoName] = Stale
====
